---- MODULE Spec2Model ----
(***************************************************************************)
(* ExamZen: the AI-request layer (services/geminiService) and the views    *)
(* that call it.                                                           *)
(*                                                                         *)
(* The repository holds six revisions of services/geminiService:           *)
(*   "A"  src/services/geminiService.ts   1-230                            *)
(*   "B"  src/services/geminiService.ts 231-376                            *)
(*   "F"  src/services/geminiService.ts 378-588  (no retryWithBackoff)     *)
(*   "C"  src/unnamed/part_000            1-139                            *)
(*   "D"  src/unnamed/part_000          140-303                            *)
(*   "E"  src/unnamed/part_000          305-447                            *)
(* A behaviour runs one of them (variable rev, fixed by Init).             *)
(*                                                                         *)
(* retryWithBackoff is module-private and every caller passes only the     *)
(* operation, so a call always starts from the revision's default          *)
(* (retries, delay).  Delays are in milliseconds.                          *)
(***************************************************************************)
EXTENDS Integers, Sequences, FiniteSets, TLC

\* ------------------------------------------------------------------ bounds
\* number of service calls one behaviour issues
MaxCalls == 2

\* ------------------------------------------------------------- revisions
Revisions == {"A", "B", "C", "D", "E", "F"}

\* revisions whose requests go through retryWithBackoff
HasRetry(r) == r # "F"

\* default of the parameter `retries`
DefaultRetries(r) ==
  CASE r = "A" -> 10
    [] r = "B" -> 3
    [] r = "C" -> 5
    [] r = "D" -> 2
    [] r = "E" -> 5
    [] r = "F" -> 0

\* default of the parameter `delay`
DefaultDelay(r) ==
  CASE r = "A" -> 5000
    [] r = "B" -> 2000
    [] r = "C" -> 1000
    [] r = "D" -> 3000
    [] r = "E" -> 3000
    [] r = "F" -> 0

\* Math.min(delay * 2, 60000) of revision A
DelayCapA == 60000

Min(a, b) == IF a <= b THEN a ELSE b

\* ------------------------------------------------------------------ errors
\* An error object as the classifiers see it: error.code, error.status and
\* the substrings of error.message.toLowerCase() they test for.
Err(k, c, s, t) == [kind |-> k, code |-> c, status |-> s, tokens |-> t]

NoErr == Err("none", 0, 0, {})

E429             == Err("E429", 0, 0, {"429"})
EQuota           == Err("EQuota", 0, 0, {"quota"})
EResourceExhausted == Err("EResourceExhausted", 0, 0, {"resource_exhausted"})
EStatus429       == Err("EStatus429", 0, 429, {})
ECode429         == Err("ECode429", 429, 0, {})
E500             == Err("E500", 0, 0, {"500"})
E503             == Err("E503", 0, 0, {"503"})
EOverloaded      == Err("EOverloaded", 0, 0, {"overloaded"})
EKeyInvalid      == Err("EKeyInvalid", 0, 0, {"key", "invalid"})
EKey403          == Err("EKey403", 0, 0, {"key", "403"})
ENetwork         == Err("ENetwork", 0, 0, {})

\* failures the credential causes
CredentialErrors == {EKeyInvalid, EKey403}

\* what ai.models.generateContent can reject with
OperationErrors ==
  {E429, EQuota, EResourceExhausted, EStatus429, ECode429,
   E500, E503, EOverloaded, ENetwork} \cup CredentialErrors

\* errors the code itself constructs with `new Error(...)`
LimitError      == Err("LimitError", 0, 0, {})          \* B 290, D 211
QuotaExceededError == Err("QuotaExceededError", 0, 0, {"quota"}) \* E 365
ConnectionFailedError == Err("ConnectionFailedError", 0, 0, {})  \* B 292, D 217
KeyIncorrectError == Err("KeyIncorrectError", 0, 0, {"key"})     \* D 214
KeyMissingError == Err("KeyMissingError", 0, 0, {"key"})         \* D 155 (getAI)

Has(e, tok) == tok \in e.tokens

\* isQuotaError (A, C) / isRateLimit (B, E) / the 429-or-quota test of D
IsRateLimit(r, e) ==
  CASE r = "A" -> \/ e.code = 429
                  \/ e.status = 429
                  \/ Has(e, "429")
                  \/ Has(e, "quota")
                  \/ Has(e, "resource_exhausted")
    [] r = "C" -> e.status = 429 \/ Has(e, "429")
    [] r \in {"B", "D", "E"} -> Has(e, "429") \/ Has(e, "quota")
    [] r = "F" -> FALSE

\* isServerBusy (E) / the 500-or-overloaded test of B and D
IsServerBusy(r, e) ==
  CASE r \in {"B", "D"} -> Has(e, "500") \/ Has(e, "overloaded")
    [] r = "E" -> Has(e, "500") \/ Has(e, "503") \/ Has(e, "overloaded")
    [] r \in {"A", "C", "F"} -> FALSE

\* IsTransient with the classification test lost: every failure is retried
IsTransientAnyFailure(r, e) == TRUE

\* the condition that, with retries > 0, makes the catch block retry
IsTransient(r, e) == IsRateLimit(r, e) \/ IsServerBusy(r, e)

\* the time the catch block sleeps before the recursive call
WaitTime(r, e, d) ==
  IF r = "E" THEN (IF IsRateLimit(r, e) THEN d * 2 ELSE d) ELSE d

\* the `delay` argument of the recursive call
NextDelay(r, e, d) ==
  CASE r = "A" -> Min(d * 2, DelayCapA)
    [] r = "B" -> (d * 3) \div 2
    [] r \in {"C", "D"} -> d * 2
    [] r = "E" -> WaitTime(r, e, d)
    [] r = "F" -> d

\* NextRetries with the decrement lost: the budget is never used up
NextRetriesNoDecrement(n) == n

\* the `retries` argument of the recursive call
NextRetries(n) == n - 1

\* what the catch block throws when it does not retry
Raise(r, e) ==
  CASE r \in {"A", "C", "F"} -> e
    [] r = "B" -> IF IsRateLimit(r, e) THEN LimitError ELSE ConnectionFailedError
    [] r = "D" -> IF IsRateLimit(r, e) THEN LimitError
                  ELSE IF Has(e, "key") /\ (Has(e, "invalid") \/ Has(e, "403"))
                       THEN KeyIncorrectError
                       ELSE ConnectionFailedError
    [] r = "E" -> IF IsRateLimit(r, e) THEN QuotaExceededError ELSE e

\* getAI() of revision D throws when process.env.API_KEY is missing or blank
GetAIThrows(r, key) == r = "D" /\ key = "missing"

\* ------------------------------------------------------- service wrappers
ServiceOps == {"generateStudyPlan", "translateText"}

\* HasTryCatch with generateStudyPlan written like translateText: only
\* revisions A, C and F catch
HasTryCatchAsTranslate(r, op) == r \in {"A", "C", "F"}

\* does the wrapper enclose its whole body (client construction included)
\* in a try/catch that returns a string
HasTryCatch(r, op) ==
  CASE op = "generateStudyPlan" -> TRUE
    [] op = "translateText" -> r \in {"A", "C", "F"}
    [] op = "askTutor" -> r \in {"A", "C", "F"}
    [] op = "extractTextFromImage" -> TRUE
    [] OTHER -> FALSE  \* analyzeChapter, generateQuiz: none, or rethrows

\* the string returned by the catch block
FallbackString(r, op) ==
  CASE op = "generateStudyPlan" -> "plan:" \o r \o ":fallback"
    [] op = "translateText" -> "translate:" \o r \o ":failure"
    [] op = "askTutor" -> "tutor:" \o r \o ":busy"
    [] op = "extractTextFromImage" -> "ocr:" \o r \o ":error"

\* the string `response.text || ...` falls back to when the text is empty
EmptyTextString(r, op) ==
  CASE op = "generateStudyPlan" ->
         IF r = "F" THEN "plan:F:fallback" ELSE "plan:" \o r \o ":empty"
    [] op = "translateText" ->
         IF r = "F" THEN "translate:F:failure" ELSE "translate:" \o r \o ":empty"
    [] op = "askTutor" ->
         IF r = "F" THEN "tutor:F:busy" ELSE "tutor:" \o r \o ":empty"
    [] op = "extractTextFromImage" -> "ocr:" \o r \o ":notext"

\* response.text || <default>
ResultOf(r, op, resp) ==
  IF resp = "TEXT" THEN "AI_TEXT" ELSE EmptyTextString(r, op)

Responses == {"TEXT", "EMPTY"}

\* SmartStudyTranslator input: inputText.trim() is empty for "" and "  "
InputTexts == {"", "  ", "notes"}
Trim(s) == IF s = "  " THEN "" ELSE s

\* ---------------------------------------------- responses and results
\* response.text of a GenerateContentResponse:
\*   text   "undefined" (no text), "empty" (""), "garbage" (not JSON),
\*          "plain" (free text) or "json"
\*   fenced the JSON is wrapped in a ```json ... ``` fence
\*   top    the JSON value is an "array" or an "object"
\*   fields the keys of the object
\*   items  the elements of the array, or of the object's `questions`
Payload(t, f, tp, fs, it) ==
  [text |-> t, fenced |-> f, top |-> tp, fields |-> fs, items |-> it]

NoResponse == Payload("none", FALSE, "", {}, <<>>)

\* what an exported operation resolves with:
\*   kind "undefined", "string" (str) or "json" (top, fields, items)
Value(k, tp, fs, it, st) ==
  [kind |-> k, top |-> tp, fields |-> fs, items |-> it, str |-> st]

NoValue == Value("none", "", {}, <<>>, "")
Undefined == Value("undefined", "", {}, <<>>, "")
Str(st) == Value("string", "", {}, <<>>, st)
Json(tp, fs, it) == Value("json", tp, fs, it, "")

VARIABLES
  rev,        \* revision of services/geminiService in use
  apiKey,     \* process.env.API_KEY: "present" or "missing"
  calls,      \* service calls issued so far
  svcOp,      \* the exported operation called ("none" before the first)
  svcPc,      \* its promise: "idle", "pending", "resolved", "rejected"
  svcResult,  \* the string it resolved with
  svcError,   \* the error it rejected with
  pc,         \* retryWithBackoff promise: "idle", "inflight", "waiting",
              \*   "resolved", "rejected"
  retries,    \* parameter `retries` of the current (recursive) call
  delay,      \* parameter `delay` of the current (recursive) call
  attempts,   \* invocations of operation() in this call
  failures,   \* rejections of operation() in this call
  waits,      \* the setTimeout durations slept, in order
  lastErr,    \* the error caught last
  value,      \* the response retryWithBackoff resolved with
  raised,     \* the error retryWithBackoff rejected with
  inputText,  \* SmartStudyTranslator state
  status,     \* SmartStudyTranslator LoadingState
  outputText, \* SmartStudyTranslator state
  imgOp,      \* the image/OCR operation called ("none" before the first)
  imgPc,      \* its promise: "idle", "preparing", "requesting",
              \*   "creatingWorker", "recognizing", "resolved", "rejected"
  images,     \* argument images: sequence of ImageInput
  history,    \* argument history of askTutor
  resized,    \* per image, the promise of resizeImage: "pending",
              \*   "resized", "original", "never"
  order,      \* indices of the images in the order their resizes settled
  parts,      \* contents.parts of the request sent
  response,   \* the response the request resolved with
  imgResult,  \* the value the operation resolved with
  imgError,   \* the error the operation rejected with
  imgSize,    \* resizeImage: <<img.width, img.height>> of the decoded image
  canvasSize, \* resizeImage: <<canvas.width, canvas.height>>
  rzPc,       \* resizeImage: "idle", "loading", "drawn"
  screen,     \* the component under study ("none" outside the view model)
  questions,  \* SmartQuiz state: the QuizQuestion list
  quizStatus, \* SmartQuiz LoadingState
  currentQuestionIdx, \* SmartQuiz state (0-based)
  selectedOption,     \* SmartQuiz state: an option index, -1 for null
  score,      \* SmartQuiz state
  isAnswered, \* SmartQuiz state
  quizFinished,       \* SmartQuiz state
  quizCalls,  \* generateQuiz promises of SmartQuiz not yet settled
  messages,  \* SmartTutor state: the Message list
  tutorInput,  \* SmartTutor state `input`
  tutorLoading,  \* SmartTutor state `loading`
  tutorCalls, \* askTutor promises of SmartTutor not yet settled
  anRev,  \* the SmartQuestionAnalyzer revision: "P", "Q1", "Q2", "R"
  sharedImages,  \* App state: the files whose data the image list holds, in order
  previews,  \* SmartQuestionAnalyzer state: the files previewed, in order
  sharedAnalysis,  \* App state `result`: "null" or "data"
  anStatus,  \* SmartQuestionAnalyzer LoadingState
  readers,  \* the FileReaders still reading: a set of files
  batch,  \* the number of uploads so far
  anCalls,  \* analyzeChapter promises of the view not yet settled
  anStarted, \* has an analysis been started since the last Clear All or resetting upload
  selectedSubjectId,  \* Dashboard state
  suggestion,  \* Dashboard state: "" or the plan shown
  loadingSuggestion,  \* Dashboard state
  lastRequestRef,  \* Dashboard ref: the last request key, "" at mount
  effectsDue,  \* runs of the Dashboard effect React still owes
  planCalls, \* per subject, the generateStudyPlan promises not yet settled
  storageState,  \* whether the users entry can be read and storage written
  users,  \* localStorage[USERS_KEY], parsed
  sessionFlag,  \* localStorage[SESSION_KEY] === 'true'
  isAuthenticated,  \* App state
  isLoadingAuth,  \* App state
  authCalls,  \* authService calls waiting for their 800 ms timer
  authResult,  \* what the last settled call returned to LoginPage
  reloading, \* window.location.reload() called, document not yet unloaded
  notesEntry,  \* localStorage['examzen_notes']
  notes,  \* SmartNotes state
  notesQueue,  \* setNotes updates queued by the mount effects
  notesPc,  \* the mount effect due next; "settled" after them, "changed" after a handler
  runsLeft,  \* runs of the mount effects still to come
  noteClock,  \* Date.now()
  storedAtMount  \* the list stored when the component mounted

vars == <<rev, apiKey, calls, svcOp, svcPc, svcResult, svcError, pc, retries,
          delay, attempts, failures, waits, lastErr, value, raised,
          inputText, status, outputText,
          imgOp, imgPc, images, history, resized, order, parts, response,
          imgResult, imgError, imgSize, canvasSize, rzPc,
          screen, questions, quizStatus, currentQuestionIdx, selectedOption,
          score, isAnswered, quizFinished, quizCalls,
          messages, tutorInput, tutorLoading, tutorCalls,
          anRev, sharedImages, previews, sharedAnalysis, anStatus, readers, batch, anCalls, anStarted,
          selectedSubjectId, suggestion, loadingSuggestion, lastRequestRef, effectsDue, planCalls,
          storageState, users, sessionFlag, isAuthenticated, isLoadingAuth, authCalls, authResult, reloading,
          notesEntry, notes, notesQueue, notesPc, runsLeft, noteClock, storedAtMount>>

pipeVars == <<imgOp, imgPc, images, history, resized, order, parts, response,
              imgResult, imgError>>
resizeVars == <<imgSize, canvasSize, rzPc>>
svcVars == <<svcOp, svcPc, svcResult, svcError>>

retryVars == <<pc, retries, delay, attempts, failures, waits, lastErr, value,
               raised>>
viewVars == <<inputText, status, outputText>>

quizVars == <<questions, quizStatus, currentQuestionIdx, selectedOption,
              score, isAnswered, quizFinished, quizCalls>>
tutorVars == <<messages, tutorInput, tutorLoading, tutorCalls>>
analyzerVars == <<anRev, sharedImages, previews, sharedAnalysis, anStatus, readers, batch, anCalls, anStarted>>
dashVars == <<selectedSubjectId, suggestion, loadingSuggestion, lastRequestRef, effectsDue, planCalls>>
authVars == <<storageState, users, sessionFlag, isAuthenticated, isLoadingAuth, authCalls, authResult, reloading>>
notesVars == <<notesEntry, notes, notesQueue, notesPc, runsLeft, noteClock, storedAtMount>>
uiVars == <<screen, quizVars, tutorVars, analyzerVars, dashVars, authVars, notesVars>>

\* SmartQuiz as mounted: the useState initial values
QuizMounted ==
  /\ questions = <<>>
  /\ quizStatus = "IDLE"
  /\ currentQuestionIdx = 0
  /\ selectedOption = -1
  /\ score = 0
  /\ isAnswered = FALSE
  /\ quizFinished = FALSE
  /\ quizCalls = 0

\* SmartTutor as mounted: the greeting is the only message
TutorMounted ==
  /\ messages = <<[role |-> "model", id |-> 1]>>
  /\ tutorInput = ""
  /\ tutorLoading = FALSE
  /\ tutorCalls = 0

\* SmartQuestionAnalyzer as mounted with nothing uploaded
AnalyzerMounted ==
  /\ sharedImages = <<>>
  /\ previews = <<>>
  /\ sharedAnalysis = "null"
  /\ anStatus = "IDLE"
  /\ readers = {}
  /\ batch = 0
  /\ anCalls = 0
  /\ anStarted = FALSE

\* Dashboard before its mount effects: MOCK_SUBJECTS[0] is selected
DashboardMounted ==
  /\ selectedSubjectId = "physics"
  /\ suggestion = ""
  /\ loadingSuggestion = FALSE
  /\ lastRequestRef = ""
  /\ effectsDue = 0
  /\ planCalls = [s \in {"physics", "math", "chemistry"} |-> 0]

\* ---------------------------------------------------------- login gate
Usernames == {"u1", "u2"}
Passwords == {"p1", "p2"}

\* one call of authService.login / authService.signup
AuthCall(op, u, p) == [op |-> op, username |-> u, password |-> p]
AuthCallKinds ==
  {AuthCall(op, u, p) : op \in {"login", "signup"}, u \in Usernames, p \in Passwords}

NoAuthResult == [op |-> "none", username |-> "", success |-> FALSE]

\* App and LoginPage as constructed, nothing stored
AuthMounted ==
  /\ storageState = "ok"
  /\ users = <<>>
  /\ sessionFlag = FALSE
  /\ isAuthenticated = FALSE
  /\ isLoadingAuth = TRUE
  /\ authCalls = [k \in AuthCallKinds |-> 0]
  /\ authResult = NoAuthResult
  /\ reloading = FALSE

\* ----------------------------------------------------------- SmartNotes
\* SmartNotes as constructed, nothing stored
NotesMounted ==
  /\ notesEntry = [present |-> FALSE, list |-> <<>>]
  /\ notes = <<>>
  /\ notesQueue = <<>>
  /\ notesPc = "load"
  /\ runsLeft = 1
  /\ noteClock = 0
  /\ storedAtMount = <<>>

ComponentsMounted ==
  /\ QuizMounted
  /\ TutorMounted
  /\ AnalyzerMounted
  /\ DashboardMounted
  /\ AuthMounted
  /\ NotesMounted

\* no component under study
UiIdle ==
  /\ screen = "none"
  /\ anRev = "P"
  /\ ComponentsMounted

\* no image/OCR operation called, no image being resized
PipeIdle ==
  /\ imgOp = "none"
  /\ imgPc = "idle"
  /\ images = <<>>
  /\ history = <<>>
  /\ resized = <<>>
  /\ order = <<>>
  /\ parts = <<>>
  /\ response = NoResponse
  /\ imgResult = NoValue
  /\ imgError = NoErr

ResizeIdle ==
  /\ imgSize = <<0, 0>>
  /\ canvasSize = <<0, 0>>
  /\ rzPc = "idle"

Init ==
  /\ PipeIdle
  /\ ResizeIdle
  /\ UiIdle
  /\ rev \in Revisions
  /\ apiKey \in {"present", "missing"}
  /\ calls = 0
  /\ svcOp = "none"
  /\ svcPc = "idle"
  /\ svcResult = ""
  /\ svcError = NoErr
  /\ pc = "idle"
  /\ retries = 0
  /\ delay = 0
  /\ attempts = 0
  /\ failures = 0
  /\ waits = <<>>
  /\ lastErr = NoErr
  /\ value = ""
  /\ raised = NoErr
  /\ inputText = ""
  /\ status = "IDLE"
  /\ outputText = ""

\* The promise of the exported operation settles, and the continuation of
\* the awaiting caller runs in the same microtask flush: for translateText
\* that is the rest of SmartStudyTranslator.handleTranslate.
Settle(op, spc, res, err) ==
  /\ svcPc' = spc
  /\ svcResult' = res
  /\ svcError' = err
  /\ IF op = "translateText"
     THEN IF spc = "resolved"
          THEN /\ outputText' = res
               /\ status' = "SUCCESS"
          ELSE /\ outputText' = outputText
               /\ status' = "ERROR"
     ELSE UNCHANGED <<status, outputText>>

\* The exported operation `op` is called.  Its synchronous prefix runs:
\* getAI() (revision D throws on a missing key), then retryWithBackoff(...)
\* with the default arguments, whose first statement invokes operation().
\* Revision F awaits ai.models.generateContent directly.
BeginCall(op) ==
  /\ svcOp' = op
  /\ calls' = calls + 1
  /\ failures' = 0
  /\ waits' = <<>>
  /\ lastErr' = NoErr
  /\ value' = ""
  /\ raised' = NoErr
  /\ IF GetAIThrows(rev, apiKey)
     THEN /\ pc' = "idle"
          /\ retries' = 0
          /\ delay' = 0
          /\ attempts' = 0
          /\ IF HasTryCatch(rev, op)
             THEN Settle(op, "resolved", FallbackString(rev, op), NoErr)
             ELSE Settle(op, "rejected", "", KeyMissingError)
     ELSE /\ pc' = "inflight"
          /\ retries' = DefaultRetries(rev)
          /\ delay' = DefaultDelay(rev)
          /\ attempts' = 1
          /\ svcPc' = "pending"
          /\ svcResult' = ""
          /\ svcError' = NoErr
          /\ IF op = "translateText"
             THEN status' = "LOADING" /\ outputText' = outputText
             ELSE UNCHANGED <<status, outputText>>

\* Dashboard's fetchSuggestion (or any caller) calls generateStudyPlan
CallGenerateStudyPlan ==
  /\ calls < MaxCalls
  /\ svcPc # "pending"
  /\ BeginCall("generateStudyPlan")
  /\ UNCHANGED <<rev, apiKey, inputText>>
  /\ UNCHANGED <<pipeVars, resizeVars>>
  /\ UNCHANGED uiVars

\* SmartStudyTranslator: onChange of the textarea
SetInputText(t) ==
  /\ inputText # t
  /\ inputText' = t
  /\ UNCHANGED <<rev, apiKey, calls, svcOp, svcPc, svcResult, svcError,
                 status, outputText>>
  /\ UNCHANGED retryVars
  /\ UNCHANGED <<pipeVars, resizeVars>>
  /\ UNCHANGED uiVars

\* SmartStudyTranslator.handleTranslate up to its await; the button is
\* disabled while status = LOADING or the trimmed input is empty
HandleTranslate ==
  /\ calls < MaxCalls
  /\ svcPc # "pending"
  /\ status # "LOADING"
  /\ Trim(inputText) # ""
  /\ BeginCall("translateText")
  /\ UNCHANGED <<rev, apiKey, inputText>>
  /\ UNCHANGED <<pipeVars, resizeVars>>
  /\ UNCHANGED uiVars

\* what an attempt can reject with: without a key only the credential fails
AttemptErrors == IF apiKey = "missing" THEN CredentialErrors ELSE OperationErrors

\* operation() resolves: `return await operation()`, then the wrapper's
\* `response.text || <default>`
OperationResolves(resp) ==
  /\ pc = "inflight"
  /\ apiKey = "present"
  /\ pc' = "resolved"
  /\ value' = resp
  /\ Settle(svcOp, "resolved", ResultOf(rev, svcOp, resp), NoErr)
  /\ UNCHANGED <<rev, apiKey, calls, svcOp, inputText, retries, delay,
                 attempts, failures, waits, lastErr, raised>>
  /\ UNCHANGED <<pipeVars, resizeVars>>
  /\ UNCHANGED uiVars

\* operation() rejects with e: the catch block of retryWithBackoff either
\* starts the backoff timer or throws; a throw reaches the wrapper
OperationRejects(e) ==
  /\ pc = "inflight"
  /\ failures' = failures + 1
  /\ lastErr' = e
  /\ IF retries > 0 /\ IsTransient(rev, e)
     THEN /\ pc' = "waiting"
          /\ waits' = Append(waits, WaitTime(rev, e, delay))
          /\ UNCHANGED <<raised, svcPc, svcResult, svcError, status, outputText>>
     ELSE /\ pc' = "rejected"
          /\ raised' = Raise(rev, e)
          /\ waits' = waits
          /\ IF HasTryCatch(rev, svcOp)
             THEN Settle(svcOp, "resolved", FallbackString(rev, svcOp), NoErr)
             ELSE Settle(svcOp, "rejected", "", Raise(rev, e))
  /\ UNCHANGED <<rev, apiKey, calls, svcOp, inputText, retries, delay,
                 attempts, value>>
  /\ UNCHANGED <<pipeVars, resizeVars>>
  /\ UNCHANGED uiVars

\* the setTimeout promise resolves: the recursive call
\* retryWithBackoff(operation, retries - 1, nextDelay) invokes operation()
TimerFires ==
  /\ pc = "waiting"
  /\ pc' = "inflight"
  /\ retries' = NextRetries(retries)
  /\ delay' = NextDelay(rev, lastErr, delay)
  /\ attempts' = attempts + 1
  /\ UNCHANGED <<rev, apiKey, calls, svcOp, svcPc, svcResult, svcError,
                 failures, waits, lastErr, value, raised>>
  /\ UNCHANGED viewVars
  /\ UNCHANGED <<pipeVars, resizeVars>>
  /\ UNCHANGED uiVars

Next ==
  \/ CallGenerateStudyPlan
  \/ HandleTranslate
  \/ \E t \in InputTexts : SetInputText(t)
  \/ \E resp \in Responses : OperationResolves(resp)
  \/ \E e \in AttemptErrors : OperationRejects(e)
  \/ TimerFires

Spec == Init /\ [][Next]_vars

\* each attempt settles and each timer fires (the claim of C8 assumes it)
FairSpec ==
  /\ Spec
  /\ WF_vars(\E resp \in Responses : OperationResolves(resp))
  /\ WF_vars(\E e \in AttemptErrors : OperationRejects(e))
  /\ WF_vars(TimerFires)

TypeOK ==
  /\ rev \in Revisions
  /\ pc \in {"idle", "inflight", "waiting", "resolved", "rejected"}
  /\ svcPc \in {"idle", "pending", "resolved", "rejected"}
  /\ status \in {"IDLE", "LOADING", "SUCCESS", "ERROR"}
  /\ attempts \in 0..(DefaultRetries(rev) + 1)
  /\ retries \in 0..DefaultRetries(rev)

\* ===================================================================
\* The error taxonomy the claims speak of
\* ===================================================================

\* a failure that signals rate-limiting: HTTP 429 or quota exceeded
SignalsRateLimit(e) ==
  \/ e.code = 429
  \/ e.status = 429
  \/ Has(e, "429")
  \/ Has(e, "quota")
  \/ Has(e, "resource_exhausted")

\* a failure that signals upstream overload: HTTP 500, 503 or "overloaded"
SignalsOverload(e) == Has(e, "500") \/ Has(e, "503") \/ Has(e, "overloaded")

\* transient = rate-limit or overload; every other failure is terminal
TransientFailure(e) == SignalsRateLimit(e) \/ SignalsOverload(e)

\* the condition an error surfaces to the caller of retryWithBackoff:
\* the errors the executor constructs carry it in their message, an error
\* passed through unchanged carries the one of the original failure
Condition(x) ==
  CASE x \in {LimitError, QuotaExceededError} -> "busy"
    [] x \in {KeyIncorrectError, KeyMissingError} -> "credential"
    [] x = ConnectionFailedError -> "generic"
    [] OTHER -> IF x \in CredentialErrors THEN "credential"
                ELSE IF TransientFailure(x) THEN "busy"
                ELSE "generic"

RetrySettled == pc \in {"resolved", "rejected"}

\* ===================================================================
\* Claims
\* ===================================================================

\* C1: an operation that fails transiently k times and then succeeds, with
\* k < maxRetries, makes retryWithBackoff resolve with the success value
\* after exactly k+1 invocations: a resolved call has invoked the operation
\* once more than it failed and carries the response, and the call never
\* gives up on a transient failure while fewer than maxRetries failures
\* have happened.
C1_TransientThenSuccess ==
  HasRetry(rev) =>
    /\ pc = "resolved" => (attempts = failures + 1 /\ value \in Responses)
    /\ (pc = "rejected" /\ TransientFailure(lastErr))
         => failures >= DefaultRetries(rev)

\* C2: an operation that fails transiently on every attempt is invoked
\* exactly maxRetries+1 times, and the call then rejects with the
\* transient-exhausted (busy) error.
C2_AlwaysTransientExhausts ==
  (HasRetry(rev) /\ pc = "rejected" /\ TransientFailure(lastErr)) =>
    /\ attempts = DefaultRetries(rev) + 1
    /\ failures = attempts
    /\ Condition(raised) = "busy"

\* C3: when the first attempt fails with a terminal error the operation is
\* invoked exactly once, no backoff wait happens and the call rejects at
\* once, whatever retry budget remains.
C3_TerminalFirstAttempt ==
  (HasRetry(rev) /\ failures = 1 /\ ~TransientFailure(lastErr)) =>
    /\ pc = "rejected"
    /\ attempts = 1
    /\ waits = <<>>
    /\ raised # NoErr

\* C3 witness: a call rejected by a terminal first failure with its whole
\* retry budget left
C3_Witness ==
  /\ HasRetry(rev)
  /\ pc = "rejected"
  /\ failures = 1
  /\ ~TransientFailure(lastErr)
  /\ retries = DefaultRetries(rev)
  /\ retries > 0

\* C4: a failure is retried (while budget remains) exactly when it signals
\* rate-limiting or overload; every other failure is terminal.
C4_ClassifiesTransientExactly ==
  (HasRetry(rev) /\ failures > 0 /\ pc \in {"waiting", "rejected"}) =>
    ((pc = "waiting") <=> (retries > 0 /\ TransientFailure(lastErr)))

\* the wait the delay-growth rule prescribes before attempt i+1, for a
\* multiplier of m2/2 and the cap of the revision (only A has one)
RECURSIVE PrescribedWait(_, _, _)
PrescribedWait(r, m2, i) ==
  IF i = 1
  THEN IF r = "A" THEN Min(DefaultDelay(r), DelayCapA) ELSE DefaultDelay(r)
  ELSE IF r = "A"
       THEN Min((PrescribedWait(r, m2, i - 1) * m2) \div 2, DelayCapA)
       ELSE (PrescribedWait(r, m2, i - 1) * m2) \div 2

\* multipliers 1, 1.5 and 2 as halves
MultiplierHalves == {2, 3, 4}

\* C5: the waits of one call follow min(initialDelay * multiplier^i, cap):
\* the first wait is initialDelay, each later one the previous times the
\* multiplier, capped.
C5_DelayGrowth ==
  HasRetry(rev) =>
    \E m2 \in MultiplierHalves :
      \A i \in 1..Len(waits) : waits[i] = PrescribedWait(rev, m2, i)

\* C6: a call that exhausts its budget on transient failures, rate-limit
\* or overload alike, rejects with the busy condition.
C6_ExhaustedIsBusy ==
  (/\ HasRetry(rev)
   /\ pc = "rejected"
   /\ failures = DefaultRetries(rev) + 1
   /\ TransientFailure(lastErr))
    => Condition(raised) = "busy"

\* C7: a credential failure is never retried and surfaces as the
\* credential-invalid condition.
C7_CredentialNotRetriedDistinct ==
  /\ (HasRetry(rev) /\ lastErr \in CredentialErrors) =>
       (pc = "rejected" /\ Condition(raised) = "credential")
  /\ (svcOp # "none" /\ GetAIThrows(rev, apiKey)) => attempts = 0

\* C8: every retryWithBackoff call settles: it resolves with a value or
\* rejects with one error after at most maxRetries+1 attempts, and the
\* operation is not invoked again once the call has settled.
C8_CallSettles ==
  /\ [](/\ attempts <= DefaultRetries(rev) + 1
        /\ pc = "resolved" => (value \in Responses /\ raised = NoErr)
        /\ pc = "rejected" => (value = "" /\ raised # NoErr))
  /\ (pc \in {"inflight", "waiting"}) ~> RetrySettled
  /\ [][(RetrySettled /\ calls' = calls) =>
          (pc' = pc /\ attempts' = attempts /\ value' = value
           /\ raised' = raised)]_vars

\* C8 witness: a call that used its whole budget and rejected
C8_Witness ==
  /\ HasRetry(rev)
  /\ pc = "rejected"
  /\ attempts = DefaultRetries(rev) + 1
  /\ Len(waits) = DefaultRetries(rev)

\* C9: generateStudyPlan never rejects; when the request fails (missing
\* credential and exhausted budget included) it resolves with the static
\* fallback plan.
C9_StudyPlanNeverRejects ==
  svcOp = "generateStudyPlan" =>
    /\ svcPc # "rejected"
    /\ (svcPc = "resolved" /\ pc # "resolved")
         => svcResult = FallbackString(rev, "generateStudyPlan")

\* C9 witness: generateStudyPlan resolved with the fallback after the retry
\* budget was exhausted
C9_Witness ==
  /\ svcOp = "generateStudyPlan"
  /\ HasRetry(rev)
  /\ pc = "rejected"
  /\ failures = DefaultRetries(rev) + 1
  /\ svcPc = "resolved"
  /\ svcResult = FallbackString(rev, "generateStudyPlan")

\* C10: translateText never rejects, so the translator view never shows
\* its ERROR state because of a failed request.
C10_TranslateNeverRejects ==
  svcOp = "translateText" => (svcPc # "rejected" /\ status # "ERROR")

\* ===================================================================
\* resizeImage (revisions B, D, E): the onload handler
\* ===================================================================

\* revisions that resize images before sending them (prepareImages)
HasResize(r) == r \in {"B", "D", "E"}

\* default of the parameter `maxWidth`
MaxWidth(r) ==
  CASE r \in {"B", "E"} -> 1024
    [] r = "D" -> 800
    [] OTHER -> 0

\* img.width / img.height of the decoded images tried
SampleSides == {480, 537, 640, 800, 801, 895, 1024, 1025, 2000, 3000}

\* `s * (m / big)` in IEEE-754 doubles falls just below the exact integer
\* quotient for these operands: 537 * (800 / 895) = 479.99999999999994
FloatShortfall(s, m, big) == <<s, m, big>> \in {<<537, 800, 895>>}

\* `side *= maxWidth / bigger` stored into canvas.width / canvas.height,
\* an unsigned long attribute: the fraction of the double is dropped
ScaledSide(s, m, big) ==
  (s * m) \div big - (IF FloatShortfall(s, m, big) THEN 1 ELSE 0)

\* canvas.width, canvas.height after the if/else of the onload handler
CanvasSize(w, h, m) ==
  IF w > h
  THEN IF w > m THEN <<m, ScaledSide(h, m, w)>> ELSE <<w, h>>
  ELSE IF h > m THEN <<ScaledSide(w, m, h), m>> ELSE <<w, h>>

\* everything outside resizeImage at rest
MainIdle ==
  /\ calls = 0
  /\ svcOp = "none"
  /\ svcPc = "idle"
  /\ svcResult = ""
  /\ svcError = NoErr
  /\ pc = "idle"
  /\ retries = 0
  /\ delay = 0
  /\ attempts = 0
  /\ failures = 0
  /\ waits = <<>>
  /\ lastErr = NoErr
  /\ value = ""
  /\ raised = NoErr
  /\ inputText = ""
  /\ status = "IDLE"
  /\ outputText = ""

ResizeInit ==
  /\ MainIdle
  /\ PipeIdle
  /\ ResizeIdle
  /\ UiIdle
  /\ rev \in {r \in Revisions : HasResize(r)}
  /\ apiKey = "present"

\* resizeImage is called with an image that decodes to w x h:
\* `img.src = ...` starts the load
LoadImage(w, h) ==
  /\ rzPc = "idle"
  /\ rzPc' = "loading"
  /\ imgSize' = <<w, h>>
  /\ canvasSize' = <<0, 0>>
  /\ UNCHANGED <<rev, apiKey, calls, svcVars, retryVars, viewVars, pipeVars>>
  /\ UNCHANGED uiVars

\* img.onload: size the canvas, draw, resolve
ImageOnload ==
  /\ rzPc = "loading"
  /\ rzPc' = "drawn"
  /\ canvasSize' = CanvasSize(imgSize[1], imgSize[2], MaxWidth(rev))
  /\ UNCHANGED imgSize
  /\ UNCHANGED <<rev, apiKey, calls, svcVars, retryVars, viewVars, pipeVars>>
  /\ UNCHANGED uiVars

ResizeNext ==
  \/ \E w \in SampleSides, h \in SampleSides : LoadImage(w, h)
  \/ ImageOnload

ResizeSpec == ResizeInit /\ [][ResizeNext]_vars

\* s * m / big rounded to the nearest integer
RoundedScale(s, m, big) == (2 * s * m + big) \div (2 * big)

Max(a, b) == IF a >= b THEN a ELSE b

\* C17: for a decodable w x h image the output is w x h when
\* max(w, h) <= maxDimension; otherwise its larger side is maxDimension and
\* its smaller side is the original one scaled by maxDimension / max(w, h),
\* rounded to the nearest integer (2000 x 3000, bound 1024: 683 x 1024).
C17_ResizeDimensions ==
  rzPc = "drawn" =>
    LET w == imgSize[1]
        h == imgSize[2]
        m == MaxWidth(rev)
    IN  IF Max(w, h) <= m
        THEN canvasSize = <<w, h>>
        ELSE IF w > h
             THEN canvasSize = <<m, RoundedScale(h, m, w)>>
             ELSE canvasSize = <<RoundedScale(w, m, h), m>>

\* ------------------------------------------- image operations, one call
MaxImages == 2
MaxTurns == 1
MaxItems == 2

ImageOps == {"analyzeChapter", "generateQuiz", "askTutor"}
OcrOp == "extractTextFromImage"

SeqsUpTo(S, n) == UNION {[1..k -> S] : k \in 1..n}

\* an uploaded page: ok says whether the browser can decode it
Img(id, ok) == [id |-> id, ok |-> ok]
\* the images argument: page i of the upload at index i
ImageInputs ==
  UNION {{[i \in 1..k |-> Img(i, b[i])] : b \in [1..k -> BOOLEAN]} :
           k \in 1..MaxImages}

\* SmartTutor messages: the greeting, then one user and one model message
\* per completed turn
Msg(role, id) == [role |-> role, id |-> id]
HistoryOf(k) ==
  [j \in 1..(2 * k + 1) |->
     IF j % 2 = 1 THEN Msg("model", j) ELSE Msg("user", j)]
Histories == {HistoryOf(k) : k \in 0..MaxTurns}

\* one element of contents.parts
Part(kind, id, tag) == [kind |-> kind, id |-> id, tag |-> tag]

\* img.onerror is assigned in resizeImage
HasOnerror(r) == r \in {"B", "D"}

\* the image parts taken in the order in which the resizes completed
ImagePartsInSettleOrder(r, imgs, rz) ==
  [i \in 1..Len(imgs) |->
     IF HasResize(r) /\ i <= Len(order')
     THEN Part("image", imgs[order'[i]].id, rz[order'[i]])
     ELSE Part("image", imgs[i].id, "original")]

\* prepareImages / prepareImageParts / images.map: one inlineData part per
\* image, by index
ImageParts(r, imgs, rz) ==
  [i \in 1..Len(imgs) |->
     Part("image", imgs[i].id, IF HasResize(r) THEN rz[i] ELSE "original")]

RoleTag(role) == IF role = "model" THEN "Tutor" ELSE "Student"

\* history.map(msg => ({ text: `${Tutor|Student}: ${msg.text}` }))
HistoryParts(r, hist) ==
  IF r = "F"
  THEN [j \in 1..Len(hist) |-> Part("text", hist[j].id, RoleTag(hist[j].role))]
  ELSE <<>>

InstructionPart(op) ==
  Part("text", 0, IF op = "askTutor" THEN "question" ELSE "prompt")

\* contents.parts of the generateContent request
RequestParts(r, op, imgs, rz, hist) ==
  ImageParts(r, imgs, rz)
    \o (IF op = "askTutor" THEN HistoryParts(r, hist) ELSE <<>>)
    \o <<InstructionPart(op)>>

\* quiz items: number of options and the correctAnswer index
Item(q, n, ans) == [q |-> q, options |-> n, correctAnswer |-> ans]
QuizLength == 15
Fifteen == [i \in 1..QuizLength |-> Item(i, 4, i % 4)]
ItemKinds == {Item(1, 4, 0), Item(2, 3, 0), Item(3, 4, 4)}
ItemLists == {<<>>, Fifteen} \cup SeqsUpTo(ItemKinds, MaxItems)

AnalysisFields == {"summary", "questions", "topics"}

\* response.text of a structured operation
NoTextPayloads ==
  {Payload(t, FALSE, "", {}, <<>>) : t \in {"undefined", "empty", "garbage"}}
QuizPayloads ==
  NoTextPayloads
    \cup {Payload("json", f, "array", {}, it) :
            f \in BOOLEAN, it \in ItemLists}
    \cup {Payload("json", f, "object", {"questions"}, it) :
            f \in BOOLEAN, it \in ItemLists}
    \cup {Payload("json", FALSE, "object", {}, <<>>)}
AnalysisPayloads ==
  NoTextPayloads
    \cup {Payload("json", f, "object", fs, <<>>) :
            f \in BOOLEAN, fs \in SUBSET AnalysisFields}
    \cup {Payload("json", FALSE, "array", {}, <<>>)}
TextPayloads ==
  {Payload(t, FALSE, "", {}, <<>>) : t \in {"undefined", "empty", "blank", "plain"}}
PayloadsFor(op) ==
  CASE op = "generateQuiz" -> QuizPayloads
    [] op = "analyzeChapter" -> AnalysisPayloads
    [] OTHER -> TextPayloads

ETypeError == Err("TypeError", 0, 0, {})
ESyntaxError == Err("SyntaxError", 0, 0, {})
EEmptyResponse == Err("EmptyResponse", 0, 0, {"empty"})

Outcome(ok, val, err) == [ok |-> ok, val |-> val, err |-> err]

\* generateQuiz returns parsed.questions
ReturnsQuestionsFieldAlways(r) == TRUE
ReturnsQuestionsField(r) == r = "F"

\* the revision removes ```json fences before JSON.parse
StripsFences(r) == r # "F"

\* what JSON.parse yields for the text, and what the operation returns of it
Parse(r, op, p) ==
  IF p.text \in {"undefined", "empty"}
  THEN CASE r = "A" -> Outcome(FALSE, NoValue, EEmptyResponse)
         [] r = "F" ->
              Outcome(TRUE, IF op = "generateQuiz" THEN Json("array", {}, <<>>)
                                                   ELSE Json("object", {}, <<>>),
                      NoErr)
         [] OTHER ->
              Outcome(FALSE, NoValue,
                      IF p.text = "undefined" THEN ETypeError ELSE ESyntaxError)
  ELSE IF p.text # "json" \/ (p.fenced /\ ~StripsFences(r))
  THEN Outcome(FALSE, NoValue, ESyntaxError)
  ELSE IF op = "generateQuiz" /\ ReturnsQuestionsField(r)
  THEN IF p.top = "object" /\ "questions" \in p.fields
       THEN Outcome(TRUE, Json("array", {}, p.items), NoErr)
       ELSE Outcome(TRUE, Undefined, NoErr)
  ELSE Outcome(TRUE, Json(p.top, p.fields, p.items), NoErr)

\* what a text operation returns for response.text
TextResult(r, op, p) ==
  IF p.text = "plain" THEN Str("AI_TEXT")
  ELSE IF p.text = "blank" /\ op = "askTutor" THEN Str("  ")
  ELSE Str(EmptyTextString(r, op))

\* an exception leaves the operation: caught and turned into a string, or
\* the returned promise rejects
Throw(r, op, e) ==
  /\ IF HasTryCatch(r, op)
     THEN /\ imgPc' = "resolved"
          /\ imgResult' = Str(FallbackString(r, op))
          /\ imgError' = NoErr
     ELSE /\ imgPc' = "rejected"
          /\ imgResult' = NoValue
          /\ imgError' = e

PipeInit ==
  /\ MainIdle
  /\ PipeIdle
  /\ ResizeIdle
  /\ UiIdle
  /\ rev \in Revisions
  /\ apiKey \in {"present", "missing"}

\* the view calls analyzeChapter, generateQuiz or askTutor
CallImageOp(op, imgs, hist) ==
  /\ imgPc \in {"idle", "resolved", "rejected"}
  /\ imgOp' = op
  /\ images' = imgs
  /\ history' = hist
  /\ order' = <<>>
  /\ response' = NoResponse
  /\ IF GetAIThrows(rev, apiKey)
     THEN /\ Throw(rev, op, KeyMissingError)
          /\ resized' = <<>>
          /\ parts' = <<>>
     ELSE IF HasResize(rev)
     THEN /\ imgPc' = "preparing"
          /\ resized' = [i \in 1..Len(imgs) |-> "pending"]
          /\ parts' = <<>>
          /\ imgResult' = NoValue
          /\ imgError' = NoErr
     ELSE /\ imgPc' = "requesting"
          /\ resized' = <<>>
          /\ parts' = RequestParts(rev, op, imgs, <<>>, hist)
          /\ imgResult' = NoValue
          /\ imgError' = NoErr
  /\ UNCHANGED <<rev, apiKey, calls, svcVars, retryVars, viewVars, resizeVars>>
  /\ UNCHANGED uiVars

\* one resizeImage promise settles with outcome s; when it was the last one
\* Promise.all resolves and the request is sent
ResizeSettles(i, s) ==
  LET rz == [resized EXCEPT ![i] = s]
  IN  /\ resized' = rz
      /\ order' = Append(order, i)
      /\ IF \A j \in DOMAIN rz : rz[j] \in {"resized", "original"}
         THEN /\ imgPc' = "requesting"
              /\ parts' = RequestParts(rev, imgOp, images, rz, history)
         ELSE UNCHANGED <<imgPc, parts>>

\* img.onload of image i
ImageLoaded(i) ==
  /\ imgPc = "preparing"
  /\ i \in DOMAIN resized
  /\ resized[i] = "pending"
  /\ images[i].ok
  /\ ResizeSettles(i, "resized")
  /\ UNCHANGED <<imgOp, images, history, response, imgResult, imgError>>
  /\ UNCHANGED <<rev, apiKey, calls, svcVars, retryVars, viewVars, resizeVars>>
  /\ UNCHANGED uiVars

\* image i fails to decode: img.onerror resolves with the original data
\* where the handler is assigned; without it nothing ever settles the promise
ImageError(i) ==
  /\ imgPc = "preparing"
  /\ i \in DOMAIN resized
  /\ resized[i] = "pending"
  /\ ~images[i].ok
  /\ IF HasOnerror(rev)
     THEN ResizeSettles(i, "original")
     ELSE /\ resized' = [resized EXCEPT ![i] = "never"]
          /\ UNCHANGED <<order, imgPc, parts>>
  /\ UNCHANGED <<imgOp, images, history, response, imgResult, imgError>>
  /\ UNCHANGED <<rev, apiKey, calls, svcVars, retryVars, viewVars, resizeVars>>
  /\ UNCHANGED uiVars

\* the request (with its retries, where the revision has them) resolves
\* with a response
RequestResolves(p) ==
  /\ imgPc = "requesting"
  /\ apiKey = "present"
  /\ p \in PayloadsFor(imgOp)
  /\ response' = p
  /\ IF imgOp \in {"analyzeChapter", "generateQuiz"}
     THEN LET o == Parse(rev, imgOp, p)
          IN  IF o.ok
              THEN /\ imgPc' = "resolved"
                   /\ imgResult' = o.val
                   /\ imgError' = NoErr
              ELSE Throw(rev, imgOp, o.err)
     ELSE /\ imgPc' = "resolved"
          /\ imgResult' = TextResult(rev, imgOp, p)
          /\ imgError' = NoErr
  /\ UNCHANGED <<imgOp, images, history, resized, order, parts>>
  /\ UNCHANGED <<rev, apiKey, calls, svcVars, retryVars, viewVars, resizeVars>>
  /\ UNCHANGED uiVars

\* the request fails for good: e is the error of the last attempt
RequestRejects(e) ==
  /\ imgPc = "requesting"
  /\ e \in AttemptErrors
  /\ Throw(rev, imgOp, IF HasRetry(rev) THEN Raise(rev, e) ELSE e)
  /\ UNCHANGED <<imgOp, images, history, resized, order, parts, response>>
  /\ UNCHANGED <<rev, apiKey, calls, svcVars, retryVars, viewVars, resizeVars>>
  /\ UNCHANGED uiVars

\* ------------------------------------------------- extractTextFromImage
EWorker == Err("WorkerError", 0, 0, {})

\* worker.recognize rejects; it resolves but worker.terminate() rejects once
\* or on both calls; or it resolves with ret.data.text "", "  " or a text
OcrOutcomes ==
  {"recognizeFail", "terminateFail", "terminateFailTwice",
   "empty", "blank", "plain"}

OcrPayload(out) == Payload(out, FALSE, "", {}, <<>>)

\* OcrResult without the `|| "No text found."` / trim().length test:
\* ret.data.text is returned as it is
OcrResultUnchecked(r, out) ==
  IF out \in {"recognizeFail", "terminateFail", "terminateFailTwice"}
  THEN Str(FallbackString(r, OcrOp))
  ELSE IF out = "plain" THEN Str("OCR_TEXT")
  ELSE IF out = "blank" THEN Str("  ")
  ELSE Str("")

\* what extractTextFromImage returns once recognition has settled
OcrResult(r, out) ==
  CASE r = "A" ->
         IF out \in {"recognizeFail", "terminateFail", "terminateFailTwice"}
         THEN Str(FallbackString(r, OcrOp))
         ELSE IF out = "plain" THEN Str("OCR_TEXT")
         ELSE Str(EmptyTextString(r, OcrOp))
    [] r = "C" ->
         IF out = "terminateFailTwice" THEN Str(FallbackString(r, OcrOp))
         ELSE IF out = "plain" THEN Str("OCR_TEXT")
         ELSE Str(EmptyTextString(r, OcrOp))
    [] OTHER ->
         IF out \in {"recognizeFail", "terminateFail", "terminateFailTwice"}
         THEN Str(FallbackString(r, OcrOp))
         ELSE IF out = "plain" THEN Str("OCR_TEXT")
         ELSE IF out = "blank" THEN Str("  ")
         ELSE Str(EmptyTextString(r, OcrOp))

\* the view calls extractTextFromImage: Tesseract in revisions A to E, a
\* generateContent request in revision F
CallExtractText(img) ==
  /\ imgPc \in {"idle", "resolved", "rejected"}
  /\ imgOp' = OcrOp
  /\ images' = <<img>>
  /\ history' = <<>>
  /\ resized' = <<>>
  /\ order' = <<>>
  /\ response' = NoResponse
  /\ imgResult' = NoValue
  /\ imgError' = NoErr
  /\ IF rev = "F"
     THEN /\ imgPc' = "requesting"
          /\ parts' = <<Part("image", img.id, "original"), InstructionPart(OcrOp)>>
     ELSE /\ imgPc' = "creatingWorker"
          /\ parts' = <<>>
  /\ UNCHANGED <<rev, apiKey, calls, svcVars, retryVars, viewVars, resizeVars>>
  /\ UNCHANGED uiVars

\* createWorker('eng') resolves
WorkerCreated ==
  /\ imgPc = "creatingWorker"
  /\ imgPc' = "recognizing"
  /\ UNCHANGED <<imgOp, images, history, resized, order, parts, response,
                 imgResult, imgError>>
  /\ UNCHANGED <<rev, apiKey, calls, svcVars, retryVars, viewVars, resizeVars>>
  /\ UNCHANGED uiVars

\* createWorker('eng') rejects
WorkerCreateFails ==
  /\ imgPc = "creatingWorker"
  /\ response' = OcrPayload("createFail")
  /\ Throw(rev, OcrOp, EWorker)
  /\ UNCHANGED <<imgOp, images, history, resized, order, parts>>
  /\ UNCHANGED <<rev, apiKey, calls, svcVars, retryVars, viewVars, resizeVars>>
  /\ UNCHANGED uiVars

\* worker.recognize and worker.terminate settle
RecognizeSettles(out) ==
  /\ imgPc = "recognizing"
  /\ response' = OcrPayload(out)
  /\ imgPc' = "resolved"
  /\ imgResult' = OcrResult(rev, out)
  /\ imgError' = NoErr
  /\ UNCHANGED <<imgOp, images, history, resized, order, parts>>
  /\ UNCHANGED <<rev, apiKey, calls, svcVars, retryVars, viewVars, resizeVars>>
  /\ UNCHANGED uiVars

PipeNext ==
  \/ \E op \in ImageOps, imgs \in ImageInputs, hist \in Histories :
       CallImageOp(op, imgs, IF op = "askTutor" THEN hist ELSE <<>>)
  \/ \E i \in 1..MaxImages : ImageLoaded(i)
  \/ \E i \in 1..MaxImages : ImageError(i)
  \/ \E p \in QuizPayloads \cup AnalysisPayloads \cup TextPayloads :
       RequestResolves(p)
  \/ \E e \in CredentialErrors \cup OperationErrors : RequestRejects(e)
  \/ \E ok \in BOOLEAN : CallExtractText(Img(1, ok))
  \/ WorkerCreated
  \/ WorkerCreateFails
  \/ \E out \in OcrOutcomes : RecognizeSettles(out)

PipeSpec == PipeInit /\ [][PipeNext]_vars

PipeTypeOK ==
  /\ imgOp \in ImageOps \cup {OcrOp, "none"}
  /\ imgPc \in {"idle", "preparing", "requesting", "creatingWorker",
                "recognizing", "resolved", "rejected"}
  /\ imgPc = "rejected" <=> imgError # NoErr
  /\ imgPc = "resolved" <=> imgResult # NoValue
  /\ Len(resized) \in {0, Len(images)}

\* ----------------------------------------------- claims on one image call
Settled == imgPc \in {"resolved", "rejected"}

\* C11: askTutor never rejects; on a terminal failure of the request, of
\* image preparation or of client construction it resolves with the
\* busy-message string.
C11_AskTutorNeverRejects ==
  imgOp = "askTutor" =>
    /\ imgPc # "rejected"
    /\ imgPc = "resolved" /\ response = NoResponse =>
         imgResult = Str(FallbackString(rev, "askTutor"))

\* C12: the request built by askTutor holds, after the images, every entry
\* of the history argument in history order, each tagged by its role, and
\* then the new question as the last part.
C12_HistoryInRequest ==
  imgOp = "askTutor" /\ parts # <<>> =>
    LET n == Len(images)
        k == Len(history)
    IN  /\ Len(parts) = n + k + 1
        /\ \A j \in 1..k :
             parts[n + j] = Part("text", history[j].id, RoleTag(history[j].role))
        /\ parts[n + k + 1] = Part("text", 0, "question")

ExpectedAnalysis(v) ==
  v.kind = "json" /\ v.top = "object" /\ v.fields = AnalysisFields

\* C13: analyzeChapter rejects whenever the parsed response does not have
\* the expected shape; a response without the topics field is never
\* returned to the caller as a result.
C13_AnalysisShapeChecked ==
  imgOp = "analyzeChapter" /\ imgPc = "resolved" =>
    /\ ExpectedAnalysis(imgResult)
    /\ "topics" \in response.fields

\* C14: when the service answers with an empty response text,
\* analyzeChapter and generateQuiz each reject; neither resolves with an
\* empty object, an empty quiz or an undefined value.
C14_EmptyTextRejects ==
  /\ imgOp \in {"analyzeChapter", "generateQuiz"}
  /\ Settled
  /\ response.text \in {"undefined", "empty"}
  => imgPc = "rejected"

WellFormedItem(it) == it.options = 4 /\ it.correctAnswer \in 0..3
WellFormedItems(its) == \A i \in DOMAIN its : WellFormedItem(its[i])

RequestedQuizShape(r, p) ==
  /\ p.text = "json"
  /\ IF r = "F"
     THEN p.top = "object" /\ "questions" \in p.fields /\ ~p.fenced
     ELSE p.top = "array"

C16_QuizItemsValid ==
  imgOp = "generateQuiz" /\ imgPc = "resolved" =>
    /\ imgResult.kind = "json"
    /\ imgResult.top = "array"
    /\ WellFormedItems(imgResult.items)

\* C18: resizeImage always settles and never rejects: an image that fails
\* to decode resolves with the original payload, so that prepareImages and
\* the operation awaiting it proceed to the remote call.
C18_ResizeAlwaysSettles ==
  \A i \in DOMAIN resized :
    /\ resized[i] # "never"
    /\ ~images[i].ok /\ resized[i] # "pending" => resized[i] = "original"

\* C19: for analyzeChapter, generateQuiz and askTutor called with images
\* i1..in the request parts are the n prepared images in input order,
\* with the instruction text as the last part, whatever the order in which
\* the resizes completed.
C19_PartsInInputOrder ==
  imgOp \in ImageOps /\ parts # <<>> =>
    LET n == Len(images)
    IN  /\ Len(parts) >= n + 1
        /\ \A i \in 1..n :
             parts[i].kind = "image" /\ parts[i].id = images[i].id
        /\ \A j \in (n + 1)..Len(parts) : parts[j].kind = "text"
        /\ parts[Len(parts)] = InstructionPart(imgOp)

C19_Witness ==
  /\ imgOp \in ImageOps
  /\ HasResize(rev)
  /\ imgPc = "requesting"
  /\ order = <<2, 1>>
  /\ resized = <<"resized", "resized">>

coreVars == <<rev, apiKey, calls, svcVars, retryVars, viewVars, pipeVars,
              resizeVars>>

\* ----------------------------------------------------------- SmartQuiz
\* what generateQuiz can resolve with
QuizResults == {<<>>} \cup SeqsUpTo(ItemKinds, MaxItems)

\* the four blocks of the render
StartScreen == quizStatus = "IDLE"
LoadingScreen == quizStatus = "LOADING"
QuestionScreen ==
  quizStatus = "SUCCESS" /\ ~quizFinished /\ Len(questions) > 0
FinishedScreen == quizFinished

\* handleGenerateQuiz up to its await: the start button of the IDLE block
\* or the new-quiz button of the finished block
HandleGenerateQuiz ==
  /\ screen = "QUIZ"
  /\ StartScreen \/ FinishedScreen
  /\ quizCalls < MaxCalls
  /\ quizStatus' = "LOADING"
  /\ quizCalls' = quizCalls + 1
  /\ UNCHANGED <<questions, currentQuestionIdx, selectedOption, score,
                 isAnswered, quizFinished>>
  /\ UNCHANGED <<screen, coreVars, tutorVars, analyzerVars, dashVars, authVars, notesVars>>

\* handleGenerateQuiz whose catch block stores SUCCESS
GenerateQuizRejectsAsSuccess ==
  /\ screen = "QUIZ"
  /\ quizCalls > 0
  /\ quizCalls' = quizCalls - 1
  /\ quizStatus' = "SUCCESS"
  /\ UNCHANGED <<questions, currentQuestionIdx, selectedOption, score,
                 isAnswered, quizFinished>>
  /\ UNCHANGED <<screen, coreVars, tutorVars, analyzerVars, dashVars, authVars, notesVars>>

\* handleGenerateQuiz after its await, generateQuiz rejected: the catch
GenerateQuizRejects ==
  /\ screen = "QUIZ"
  /\ quizCalls > 0
  /\ quizCalls' = quizCalls - 1
  /\ quizStatus' = "ERROR"
  /\ UNCHANGED <<questions, currentQuestionIdx, selectedOption, score,
                 isAnswered, quizFinished>>
  /\ UNCHANGED <<screen, coreVars, tutorVars, analyzerVars, dashVars, authVars, notesVars>>

\* handleGenerateQuiz after its await, generateQuiz resolved with qs
GenerateQuizResolves(qs) ==
  /\ screen = "QUIZ"
  /\ quizCalls > 0
  /\ quizCalls' = quizCalls - 1
  /\ questions' = qs
  /\ quizStatus' = "SUCCESS"
  /\ currentQuestionIdx' = 0
  /\ score' = 0
  /\ quizFinished' = FALSE
  /\ selectedOption' = -1
  /\ isAnswered' = FALSE
  /\ UNCHANGED <<screen, coreVars, tutorVars, analyzerVars, dashVars, authVars, notesVars>>

\* handleOptionSelect without its first line
HandleOptionSelectUnguarded(idx) ==
  /\ screen = "QUIZ"
  /\ QuestionScreen
  /\ idx \in 0..(questions[currentQuestionIdx + 1].options - 1)
  /\ selectedOption' = idx
  /\ isAnswered' = TRUE
  /\ score' = IF idx = questions[currentQuestionIdx + 1].correctAnswer
              THEN score + 1 ELSE score
  /\ UNCHANGED <<questions, quizStatus, currentQuestionIdx, quizFinished,
                 quizCalls>>
  /\ UNCHANGED <<screen, coreVars, tutorVars, analyzerVars, dashVars, authVars, notesVars>>

\* handleOptionSelect(idx) of an option button of the current question
HandleOptionSelect(idx) ==
  /\ screen = "QUIZ"
  /\ QuestionScreen
  /\ idx \in 0..(questions[currentQuestionIdx + 1].options - 1)
  /\ IF isAnswered
     THEN UNCHANGED <<selectedOption, isAnswered, score>>
     ELSE /\ selectedOption' = idx
          /\ isAnswered' = TRUE
          /\ score' = IF idx = questions[currentQuestionIdx + 1].correctAnswer
                      THEN score + 1 ELSE score
  /\ UNCHANGED <<questions, quizStatus, currentQuestionIdx, quizFinished,
                 quizCalls>>
  /\ UNCHANGED <<screen, coreVars, tutorVars, analyzerVars, dashVars, authVars, notesVars>>

\* the body of handleMoveToNext
MoveToNext ==
  /\ IF currentQuestionIdx < Len(questions) - 1
     THEN /\ currentQuestionIdx' = currentQuestionIdx + 1
          /\ selectedOption' = -1
          /\ isAnswered' = FALSE
          /\ UNCHANGED quizFinished
     ELSE /\ quizFinished' = TRUE
          /\ UNCHANGED <<currentQuestionIdx, selectedOption, isAnswered>>
  /\ UNCHANGED <<questions, quizStatus, score, quizCalls>>
  /\ UNCHANGED <<screen, coreVars, tutorVars, analyzerVars, dashVars, authVars, notesVars>>

\* the skip button, shown while the question is not answered
HandleSkipQuestion ==
  /\ screen = "QUIZ"
  /\ QuestionScreen
  /\ ~isAnswered
  /\ MoveToNext

\* the next / show-result button, shown once the question is answered
HandleMoveToNext ==
  /\ screen = "QUIZ"
  /\ QuestionScreen
  /\ isAnswered
  /\ MoveToNext

QuizNext ==
  \/ HandleGenerateQuiz
  \/ GenerateQuizRejects
  \/ \E qs \in QuizResults : GenerateQuizResolves(qs)
  \/ \E idx \in 0..3 : HandleOptionSelect(idx)
  \/ HandleSkipQuestion
  \/ HandleMoveToNext

\* ----------------------------------------------------------- SmartTutor
\* the textarea's onChange
SetTutorInput(t) ==
  /\ screen = "CHAT"
  /\ tutorInput' = t
  /\ UNCHANGED <<messages, tutorLoading, tutorCalls>>
  /\ UNCHANGED <<screen, coreVars, quizVars, analyzerVars, dashVars, authVars, notesVars>>

\* handleSend whose guard does not test `loading`
HandleSendWhileLoading ==
  /\ screen = "CHAT"
  /\ Len(messages) < 2 * MaxTurns + 3
  /\ IF Trim(tutorInput) = ""
     THEN UNCHANGED tutorVars
     ELSE /\ tutorInput' = ""
          /\ messages' = Append(messages, Msg("user", Len(messages) + 1))
          /\ tutorLoading' = TRUE
          /\ tutorCalls' = tutorCalls + 1
  /\ UNCHANGED <<screen, coreVars, quizVars, analyzerVars, dashVars, authVars, notesVars>>

\* handleSend up to its await (send button or Enter)
HandleSend ==
  /\ screen = "CHAT"
  /\ Len(messages) < 2 * MaxTurns + 3
  /\ IF Trim(tutorInput) = "" \/ tutorLoading
     THEN UNCHANGED tutorVars
     ELSE /\ tutorInput' = ""
          /\ messages' = Append(messages, Msg("user", Len(messages) + 1))
          /\ tutorLoading' = TRUE
          /\ tutorCalls' = tutorCalls + 1
  /\ UNCHANGED <<screen, coreVars, quizVars, analyzerVars, dashVars, authVars, notesVars>>

\* handleSend after its await: try or catch appends the model message,
\* finally clears loading
AskTutorSettles(outcome) ==
  /\ screen = "CHAT"
  /\ tutorCalls > 0
  /\ outcome \in {"resolved", "rejected"}
  /\ tutorCalls' = tutorCalls - 1
  /\ messages' = Append(messages, Msg("model", Len(messages) + 1))
  /\ tutorLoading' = FALSE
  /\ UNCHANGED tutorInput
  /\ UNCHANGED <<screen, coreVars, quizVars, analyzerVars, dashVars, authVars, notesVars>>

TutorNext ==
  \/ \E t \in InputTexts : SetTutorInput(t)
  \/ HandleSend
  \/ \E outcome \in {"resolved", "rejected"} : AskTutorSettles(outcome)

\* ------------------------------------------------ SmartQuestionAnalyzer
\* P: components/SmartQuestionAnalyzer.tsx; Q1, Q2: the two copies of
\* part_003; R: part_002
AnalyzerRevisions == {"P", "Q1", "Q2", "R"}
MaxBatches == 2

\* notes a student keeps
MaxNotes == 2
BatchSizes == {1, 2}

File(b, i) == [batch |-> b, idx |-> i]
AllFiles == {File(b, i) : b \in 1..MaxBatches, i \in BatchSizes}

\* handleImageUpload empties the lists and the result first
ResetsOnUpload(r) == r # "R"

\* handleAnalyze and removeImage of the last image clear the result
ClearsResultEarly(r) == r = "R"

Without(seq, k) ==
  [j \in 1..(Len(seq) - 1) |-> IF j < k THEN seq[j] ELSE seq[j + 1]]

\* handleImageUpload with n files chosen: resets, then one FileReader each
HandleImageUpload(n) ==
  /\ screen = "ANALYZER"
  /\ batch < MaxBatches
  /\ n \in BatchSizes
  /\ batch' = batch + 1
  /\ readers' = readers \cup {File(batch + 1, i) : i \in 1..n}
  /\ anStatus' = "IDLE"
  /\ IF ResetsOnUpload(anRev)
     THEN /\ sharedAnalysis' = "null"
          /\ sharedImages' = <<>>
          /\ previews' = <<>>
          /\ anStarted' = FALSE
     ELSE UNCHANGED <<sharedAnalysis, sharedImages, previews, anStarted>>
  /\ UNCHANGED <<anRev, anCalls>>
  /\ UNCHANGED <<screen, coreVars, quizVars, tutorVars, dashVars, authVars, notesVars>>

\* reader.onloadend of file f: both lists are appended to
ReaderLoadEnd(f) ==
  /\ screen = "ANALYZER"
  /\ f \in readers
  /\ readers' = readers \ {f}
  /\ previews' = Append(previews, f)
  /\ sharedImages' = Append(sharedImages, f)
  /\ UNCHANGED <<anRev, sharedAnalysis, anStatus, batch, anCalls, anStarted>>
  /\ UNCHANGED <<screen, coreVars, quizVars, tutorVars, dashVars, authVars, notesVars>>

\* handleAnalyze up to its await; the button is shown while there are
\* images and status is not SUCCESS, and disabled while LOADING
HandleAnalyze ==
  /\ screen = "ANALYZER"
  /\ Len(sharedImages) > 0
  /\ anStatus \in {"IDLE", "ERROR"}
  /\ anCalls < MaxCalls
  /\ anStatus' = "LOADING"
  /\ anCalls' = anCalls + 1
  /\ anStarted' = TRUE
  /\ sharedAnalysis' = IF ClearsResultEarly(anRev) THEN "null" ELSE sharedAnalysis
  /\ UNCHANGED <<anRev, sharedImages, previews, readers, batch>>
  /\ UNCHANGED <<screen, coreVars, quizVars, tutorVars, dashVars, authVars, notesVars>>

\* handleAnalyze after its await, analyzeChapter resolved
AnalyzeResolves ==
  /\ screen = "ANALYZER"
  /\ anCalls > 0
  /\ anCalls' = anCalls - 1
  /\ sharedAnalysis' = "data"
  /\ anStatus' = "SUCCESS"
  /\ UNCHANGED <<anRev, sharedImages, previews, readers, batch, anStarted>>
  /\ UNCHANGED <<screen, coreVars, quizVars, tutorVars, dashVars, authVars, notesVars>>

\* handleAnalyze after its await, analyzeChapter rejected: the catch
AnalyzeRejects ==
  /\ screen = "ANALYZER"
  /\ anCalls > 0
  /\ anCalls' = anCalls - 1
  /\ anStatus' = "ERROR"
  /\ UNCHANGED <<anRev, sharedImages, previews, sharedAnalysis, readers,
                 batch, anStarted>>
  /\ UNCHANGED <<screen, coreVars, quizVars, tutorVars, dashVars, authVars, notesVars>>

\* handleClear: the Clear All button, shown while there are images
HandleClear ==
  /\ screen = "ANALYZER"
  /\ Len(sharedImages) > 0
  /\ sharedImages' = <<>>
  /\ previews' = <<>>
  /\ sharedAnalysis' = "null"
  /\ anStatus' = "IDLE"
  /\ anStarted' = FALSE
  /\ UNCHANGED <<anRev, readers, batch, anCalls>>
  /\ UNCHANGED <<screen, coreVars, quizVars, tutorVars, dashVars, authVars, notesVars>>

\* removeImage(index) of a preview's remove button
RemoveImage(k) ==
  /\ screen = "ANALYZER"
  /\ k \in DOMAIN previews
  /\ previews' = Without(previews, k)
  /\ sharedImages' = IF k \in DOMAIN sharedImages
                     THEN Without(sharedImages, k) ELSE sharedImages
  /\ sharedAnalysis' = IF ClearsResultEarly(anRev) /\ Len(sharedImages) <= 1
                       THEN "null" ELSE sharedAnalysis
  /\ UNCHANGED <<anRev, anStatus, readers, batch, anCalls, anStarted>>
  /\ UNCHANGED <<screen, coreVars, quizVars, tutorVars, dashVars, authVars, notesVars>>

AnalyzerNext ==
  \/ \E n \in BatchSizes : HandleImageUpload(n)
  \/ \E f \in AllFiles : ReaderLoadEnd(f)
  \/ HandleAnalyze
  \/ AnalyzeResolves
  \/ AnalyzeRejects
  \/ HandleClear
  \/ \E k \in 1..(MaxBatches * 2) : RemoveImage(k)

\* ------------------------------------------------------------ Dashboard
Subjects == {"physics", "math", "chemistry"}

\* `${selectedSubject.id}-${topTopic.name}`: one top topic per subject
RequestKey(s) == s

\* what generateStudyPlan resolves with for the subject (it never rejects)
PlanFor(s) == "plan:" \o s

InFlight == planCalls["physics"] + planCalls["math"] + planCalls["chemistry"]

\* one run of the effect: return when the key was requested last,
\* otherwise fetchSuggestion up to its await
RunEffect ==
  /\ screen = "DASHBOARD"
  /\ effectsDue > 0
  /\ effectsDue' = effectsDue - 1
  /\ IF lastRequestRef = RequestKey(selectedSubjectId)
     THEN UNCHANGED <<lastRequestRef, loadingSuggestion, planCalls>>
     ELSE /\ lastRequestRef' = RequestKey(selectedSubjectId)
          /\ loadingSuggestion' = TRUE
          /\ planCalls' = [planCalls EXCEPT ![selectedSubjectId] = @ + 1]
  /\ UNCHANGED <<selectedSubjectId, suggestion>>
  /\ UNCHANGED <<screen, coreVars, quizVars, tutorVars, analyzerVars, authVars, notesVars>>

\* the select's onChange; a new subject changes the effect's dependencies
SelectSubject(s) ==
  /\ screen = "DASHBOARD"
  /\ effectsDue = 0
  /\ InFlight < MaxCalls
  /\ selectedSubjectId' = s
  /\ effectsDue' = IF s = selectedSubjectId THEN 0 ELSE 1
  /\ UNCHANGED <<suggestion, loadingSuggestion, lastRequestRef, planCalls>>
  /\ UNCHANGED <<screen, coreVars, quizVars, tutorVars, analyzerVars, authVars, notesVars>>

\* fetchSuggestion after its await, for a call made for subject s
PlanSettles(s) ==
  /\ screen = "DASHBOARD"
  /\ planCalls[s] > 0
  /\ planCalls' = [planCalls EXCEPT ![s] = @ - 1]
  /\ suggestion' = PlanFor(s)
  /\ loadingSuggestion' = FALSE
  /\ UNCHANGED <<selectedSubjectId, lastRequestRef, effectsDue>>
  /\ UNCHANGED <<screen, coreVars, quizVars, tutorVars, analyzerVars, authVars, notesVars>>

DashboardNext ==
  \/ RunEffect
  \/ \E s \in Subjects : SelectSubject(s)
  \/ \E s \in Subjects : PlanSettles(s)

\* ------------------------------------------------- authService, App gate
RECURSIVE SumCalls(_, _)
SumCalls(f, S) ==
  IF S = {} THEN 0
  ELSE LET k == CHOOSE x \in S : TRUE IN f[k] + SumCalls(f, S \ {k})

PendingAuth == SumCalls(authCalls, AuthCallKinds)

\* users.find(u => u.username === username)
UserExists(u) == \E i \in 1..Len(users) : users[i].username = u

\* users.find(u => u.username === username && u.password === pass)
UserMatches(u, p) ==
  \E i \in 1..Len(users) : users[i].username = u /\ users[i].password = p

\* the gate of App: which of its three renderings is shown
LoadingShown == isLoadingAuth
LoginPageShown == ~isLoadingAuth /\ ~isAuthenticated
MainViewsShown == ~isLoadingAuth /\ isAuthenticated

\* the mount effect of App
CheckAuth ==
  /\ screen = "AUTH"
  /\ isLoadingAuth
  /\ ~reloading
  /\ isAuthenticated' = sessionFlag
  /\ isLoadingAuth' = FALSE
  /\ UNCHANGED <<storageState, users, sessionFlag, authCalls, authResult, reloading>>
  /\ UNCHANGED <<screen, coreVars, quizVars, tutorVars, analyzerVars, dashVars, notesVars>>

\* handleLogin / handleSignup up to the await of the service's timer.  One
\* page disables its form while a call is pending; the calls counted here
\* are those of every page that shares the storage.
SubmitAuth(k) ==
  /\ screen = "AUTH"
  /\ LoginPageShown
  /\ PendingAuth < MaxCalls
  /\ authCalls' = [authCalls EXCEPT ![k] = @ + 1]
  /\ UNCHANGED <<storageState, users, sessionFlag, isAuthenticated,
                 isLoadingAuth, authResult, reloading>>
  /\ UNCHANGED <<screen, coreVars, quizVars, tutorVars, analyzerVars, dashVars, notesVars>>

\* authService.login after its timer, and handleLogin's continuation,
\* accepting any user with the given name
LoginSettlesAnyPassword(u, p) ==
  LET k == AuthCall("login", u, p)
      success == storageState = "ok" /\ UserExists(u)
  IN /\ screen = "AUTH"
     /\ authCalls[k] > 0
     /\ authCalls' = [authCalls EXCEPT ![k] = @ - 1]
     /\ sessionFlag' = (success \/ sessionFlag)
     /\ isAuthenticated' = (success \/ isAuthenticated)
     /\ authResult' = [op |-> "login", username |-> u, success |-> success]
     /\ UNCHANGED <<storageState, users, isLoadingAuth, reloading>>
     /\ UNCHANGED <<screen, coreVars, quizVars, tutorVars, analyzerVars, dashVars, notesVars>>

\* authService.login after its timer (the try block runs to completion:
\* a read that throws or a setItem that throws is caught and returns
\* false), and handleLogin's continuation (onLogin on success)
LoginSettles(u, p) ==
  LET k == AuthCall("login", u, p)
      success == storageState = "ok" /\ UserMatches(u, p)
  IN /\ screen = "AUTH"
     /\ authCalls[k] > 0
     /\ authCalls' = [authCalls EXCEPT ![k] = @ - 1]
     /\ sessionFlag' = (success \/ sessionFlag)
     /\ isAuthenticated' = (success \/ isAuthenticated)
     /\ authResult' = [op |-> "login", username |-> u, success |-> success]
     /\ UNCHANGED <<storageState, users, isLoadingAuth, reloading>>
     /\ UNCHANGED <<screen, coreVars, quizVars, tutorVars, analyzerVars, dashVars, notesVars>>

\* authService.signup without the test for an existing user
SignupSettlesUnchecked(u, p) ==
  LET k == AuthCall("signup", u, p)
      success == storageState = "ok"
  IN /\ screen = "AUTH"
     /\ authCalls[k] > 0
     /\ authCalls' = [authCalls EXCEPT ![k] = @ - 1]
     /\ users' = IF success
                   THEN Append(users, [username |-> u, password |-> p])
                   ELSE users
     /\ authResult' = [op |-> "signup", username |-> u, success |-> success]
     /\ UNCHANGED <<storageState, sessionFlag, isAuthenticated, isLoadingAuth,
                    reloading>>
     /\ UNCHANGED <<screen, coreVars, quizVars, tutorVars, analyzerVars, dashVars, notesVars>>

\* authService.signup after its timer (read, test, push and write run to
\* completion; a throw is caught and returns false), and handleSignup's
\* continuation
SignupSettles(u, p) ==
  LET k == AuthCall("signup", u, p)
      success == storageState = "ok" /\ ~UserExists(u)
  IN /\ screen = "AUTH"
     /\ authCalls[k] > 0
     /\ authCalls' = [authCalls EXCEPT ![k] = @ - 1]
     /\ users' = IF success
                   THEN Append(users, [username |-> u, password |-> p])
                   ELSE users
     /\ authResult' = [op |-> "signup", username |-> u, success |-> success]
     /\ UNCHANGED <<storageState, sessionFlag, isAuthenticated, isLoadingAuth,
                    reloading>>
     /\ UNCHANGED <<screen, coreVars, quizVars, tutorVars, analyzerVars, dashVars, notesVars>>

\* handleLogout: authService.logout (removeItem, reload requested), then
\* setIsAuthenticated(false)
HandleLogout ==
  /\ screen = "AUTH"
  /\ MainViewsShown
  /\ ~reloading
  /\ sessionFlag' = FALSE
  /\ reloading' = TRUE
  /\ isAuthenticated' = FALSE
  /\ UNCHANGED <<storageState, users, isLoadingAuth, authCalls, authResult>>
  /\ UNCHANGED <<screen, coreVars, quizVars, tutorVars, analyzerVars, dashVars, notesVars>>

\* the reload takes place: the document, its timers and its React state
\* are gone and App is constructed again; storage is kept
Reload ==
  /\ screen = "AUTH"
  /\ reloading
  /\ reloading' = FALSE
  /\ isAuthenticated' = FALSE
  /\ isLoadingAuth' = TRUE
  /\ authCalls' = [k \in AuthCallKinds |-> 0]
  /\ authResult' = NoAuthResult
  /\ UNCHANGED <<storageState, users, sessionFlag>>
  /\ UNCHANGED <<screen, coreVars, quizVars, tutorVars, analyzerVars, dashVars, notesVars>>

AuthNext ==
  \/ CheckAuth
  \/ \E k \in AuthCallKinds : SubmitAuth(k)
  \/ \E u \in Usernames, p \in Passwords : LoginSettles(u, p)
  \/ \E u \in Usernames, p \in Passwords : SignupSettles(u, p)
  \/ HandleLogout
  \/ Reload

\* ----------------------------------------------------------- SmartNotes
Contents == {"a", "b"}
Note(id, c) == [id |-> id, content |-> c]

\* what storage can hold when the component mounts: the notes 1..n, newest
\* first
StoredLists ==
  {[i \in 1..n |-> Note(n + 1 - i, "a")] : n \in 0..MaxNotes}

\* the load effect: getItem, and setNotes(JSON.parse(..)) if a string is
\* stored
LoadEffect ==
  /\ screen = "NOTES"
  /\ notesPc = "load"
  /\ notesQueue' = IF notesEntry.present
                     THEN Append(notesQueue, notesEntry.list)
                     ELSE notesQueue
  /\ notesPc' = "save"
  /\ UNCHANGED <<notesEntry, notes, runsLeft, noteClock, storedAtMount>>
  /\ UNCHANGED <<screen, coreVars, quizVars, tutorVars, analyzerVars, dashVars, authVars>>

\* the save effect: setItem(JSON.stringify(notes)) with the notes of the
\* render it belongs to.  On mount React runs load and save once, or (effects
\* run twice) once more, before it renders the queued updates.
SaveEffect ==
  /\ screen = "NOTES"
  /\ notesPc = "save"
  /\ notesEntry' = [present |-> TRUE, list |-> notes]
  /\ runsLeft' = IF runsLeft > 0 THEN runsLeft - 1 ELSE 0
  /\ notesPc' = IF runsLeft > 1 THEN "load"
                ELSE IF notesQueue # <<>> THEN "render"
                ELSE "settled"
  /\ UNCHANGED <<notes, notesQueue, noteClock, storedAtMount>>
  /\ UNCHANGED <<screen, coreVars, quizVars, tutorVars, analyzerVars, dashVars, authVars>>

\* the render after the mount effects: the queued setNotes calls are applied
\* in order, so the last one wins; notes changed, so the save effect is due
RenderQueued ==
  /\ screen = "NOTES"
  /\ notesPc = "render"
  /\ notes' = notesQueue[Len(notesQueue)]
  /\ notesQueue' = <<>>
  /\ notesPc' = "save"
  /\ UNCHANGED <<notesEntry, runsLeft, noteClock, storedAtMount>>
  /\ UNCHANGED <<screen, coreVars, quizVars, tutorVars, analyzerVars, dashVars, authVars>>

\* handleSaveNote for a new note (currentNote.id empty), the render, and the
\* save effect of that render
HandleSaveNew(c) ==
  /\ screen = "NOTES"
  /\ notesPc \in {"settled", "changed"}
  /\ notesPc' = "changed"
  /\ noteClock < MaxNotes + 1
  /\ noteClock' = noteClock + 1
  /\ notes' = <<Note(noteClock + 1, c)>> \o notes
  /\ notesEntry' = [present |-> TRUE, list |-> notes']
  /\ UNCHANGED <<notesQueue, runsLeft, storedAtMount>>
  /\ UNCHANGED <<screen, coreVars, quizVars, tutorVars, analyzerVars, dashVars, authVars>>

\* handleSaveNote for the note being edited, the render, the save effect
HandleSaveEdited(id, c) ==
  /\ screen = "NOTES"
  /\ notesPc \in {"settled", "changed"}
  /\ notesPc' = "changed"
  /\ \E i \in 1..Len(notes) : notes[i].id = id
  /\ notes' = [i \in 1..Len(notes) |->
                 IF notes[i].id = id THEN Note(id, c) ELSE notes[i]]
  /\ notesEntry' = [present |-> TRUE, list |-> notes']
  /\ UNCHANGED <<notesQueue, runsLeft, noteClock, storedAtMount>>
  /\ UNCHANGED <<screen, coreVars, quizVars, tutorVars, analyzerVars, dashVars, authVars>>

\* handleDeleteNote, the render, the save effect
HandleDeleteNote(id) ==
  /\ screen = "NOTES"
  /\ notesPc \in {"settled", "changed"}
  /\ notesPc' = "changed"
  /\ \E i \in 1..Len(notes) : notes[i].id = id
  /\ notes' = SelectSeq(notes, LAMBDA n : n.id # id)
  /\ notesEntry' = [present |-> TRUE, list |-> notes']
  /\ UNCHANGED <<notesQueue, runsLeft, noteClock, storedAtMount>>
  /\ UNCHANGED <<screen, coreVars, quizVars, tutorVars, analyzerVars, dashVars, authVars>>

NotesNext ==
  \/ LoadEffect
  \/ SaveEffect
  \/ RenderQueued
  \/ \E c \in Contents : HandleSaveNew(c)
  \/ \E id \in 1..(MaxNotes + 1), c \in Contents : HandleSaveEdited(id, c)
  \/ \E id \in 1..(MaxNotes + 1) : HandleDeleteNote(id)

ViewInit ==
  /\ MainIdle
  /\ PipeIdle
  /\ ResizeIdle
  /\ rev = "F"
  /\ apiKey = "present"
  /\ screen \in {"QUIZ", "CHAT", "ANALYZER", "DASHBOARD", "AUTH",
                "NOTES"}
  /\ QuizMounted
  /\ TutorMounted
  /\ AnalyzerMounted
  /\ selectedSubjectId = "physics"
  /\ suggestion = ""
  /\ loadingSuggestion = FALSE
  /\ lastRequestRef = ""
  /\ planCalls = [s \in Subjects |-> 0]
  \* the mount effect runs once, or twice under StrictMode
  /\ effectsDue \in (IF screen = "DASHBOARD" THEN {1, 2} ELSE {0})
  /\ anRev \in (IF screen = "ANALYZER" THEN AnalyzerRevisions ELSE {"P"})
  \* the users entry is a list this program wrote, or something else
  \* ("unreadable"), or the storage refuses writes ("full")
  /\ storageState \in (IF screen = "AUTH" THEN {"ok", "unreadable", "full"}
                                          ELSE {"ok"})
  /\ users = <<>>
  /\ sessionFlag = FALSE
  /\ isAuthenticated = FALSE
  /\ isLoadingAuth = TRUE
  /\ authCalls = [k \in AuthCallKinds |-> 0]
  /\ authResult = NoAuthResult
  /\ reloading = FALSE
  /\ notes = <<>>
  /\ notesQueue = <<>>
  /\ notesPc = "load"
  \* the mount effects run once, or twice
  /\ runsLeft \in (IF screen = "NOTES" THEN {1, 2} ELSE {1})
  /\ storedAtMount \in (IF screen = "NOTES" THEN StoredLists ELSE {<<>>})
  /\ noteClock = Len(storedAtMount)
  /\ notesEntry \in (IF screen = "NOTES"
                       THEN {[present |-> TRUE, list |-> storedAtMount]}
                            \cup (IF storedAtMount = <<>>
                                    THEN {[present |-> FALSE, list |-> <<>>]}
                                    ELSE {})
                       ELSE {[present |-> FALSE, list |-> <<>>]})

ViewNext ==
  \/ QuizNext
  \/ TutorNext
  \/ AnalyzerNext
  \/ DashboardNext
  \/ AuthNext
  \/ NotesNext

ViewSpec == ViewInit /\ [][ViewNext]_vars

\* ------------------------------------------------------ claims on SmartQuiz
\* C22: once an option has been selected for the current question, further
\* selections change neither selectedOption nor score until the view moves
\* to the next question; 0 <= score <= currentQuestionIdx + 1 <=
\* questions.length while a quiz is loaded; skipping leaves score unchanged.
C22_AnswerLockedScoreBounded ==
  /\ [](screen = "QUIZ" /\ Len(questions) > 0 =>
          /\ 0 <= score
          /\ score <= currentQuestionIdx + 1
          /\ currentQuestionIdx + 1 <= Len(questions))
  /\ [][isAnswered /\ isAnswered' => UNCHANGED <<selectedOption, score>>]_vars
  /\ [][HandleSkipQuestion => score' = score]_vars

C22_Witness ==
  /\ screen = "QUIZ"
  /\ isAnswered
  /\ Len(questions) = 2
  /\ currentQuestionIdx = 1
  /\ score = 2

\* C23: in SmartQuiz with images loaded, every state in which no generation
\* is in flight shows exactly one of the start, question and finished
\* screens (each of which offers an action that leads on), also after a
\* failed generation and after one that returned zero questions; the
\* loading screen is never shown together with the finished screen.
C23_NoDeadEnd ==
  screen = "QUIZ" =>
    /\ quizCalls = 0 =>
         \/ StartScreen /\ ~QuestionScreen /\ ~FinishedScreen
         \/ ~StartScreen /\ QuestionScreen /\ ~FinishedScreen
         \/ ~StartScreen /\ ~QuestionScreen /\ FinishedScreen
    /\ ~(LoadingScreen /\ FinishedScreen)

\* ----------------------------------------------------- claims on SmartTutor
\* C24: the SmartTutor message list is append-only and strictly alternating
\* after the greeting; a send is accepted only when the input is non-blank
\* and no request is in flight; each accepted send appends exactly one user
\* message and, once askTutor settles, exactly one model message, and
\* loading returns to false.
C24_MessagesAlternate ==
  /\ [](screen = "CHAT" =>
          /\ \A j \in DOMAIN messages :
               messages[j].role = (IF j % 2 = 1 THEN "model" ELSE "user")
          /\ tutorCalls <= 1
          /\ tutorLoading <=> tutorCalls = 1)
  /\ [][/\ Len(messages') >= Len(messages)
        /\ SubSeq(messages', 1, Len(messages)) = messages
        /\ Len(messages') <= Len(messages) + 1]_vars
  /\ [][tutorCalls' = tutorCalls + 1 =>
          /\ Trim(tutorInput) # ""
          /\ ~tutorLoading
          /\ messages' = Append(messages, Msg("user", Len(messages) + 1))]_vars
  /\ [][tutorCalls' = tutorCalls - 1 =>
          /\ messages' = Append(messages, Msg("model", Len(messages) + 1))
          /\ ~tutorLoading']_vars

C24_Witness ==
  /\ screen = "CHAT"
  /\ Len(messages) = 5
  /\ ~tutorLoading

\* ------------------------------------------ claims on SmartQuestionAnalyzer
\* C25: when Clear All is pressed or a new batch is uploaded while an
\* analyzeChapter call is in flight, the resolution of that abandoned call
\* is discarded: result stays null and status stays IDLE until a new
\* analysis is started.
C25_AbandonedCallDiscarded ==
  screen = "ANALYZER" /\ ~anStarted =>
    sharedAnalysis = "null" /\ anStatus = "IDLE"

\* the files of the latest upload
LatestBatch(f) == f.batch = batch

\* C26: uploading a new batch replaces the old one: once all file reads have
\* completed the image list and the preview list hold only files of the
\* latest batch; the two lists have equal length and previews[i] and
\* images[i] come from the same file.
C26_LatestBatchOnly ==
  screen = "ANALYZER" =>
    /\ Len(previews) = Len(sharedImages)
    /\ \A i \in DOMAIN previews : previews[i] = sharedImages[i]
    /\ readers = {} => \A i \in DOMAIN sharedImages : LatestBatch(sharedImages[i])

\* ------------------------------------------------------ claims on Dashboard
\* C27: for any sequence of subject selections and any completion order of
\* the generateStudyPlan calls, two consecutive effect runs with the same
\* key issue only one call, and once all issued calls have settled the
\* suggestion shown is the plan for the selected subject; loadingSuggestion
\* is false only when no call is in flight.
C27_SuggestionMatchesSubject ==
  screen = "DASHBOARD" /\ effectsDue = 0 =>
    /\ InFlight = 0 => suggestion = PlanFor(selectedSubjectId)
    /\ ~loadingSuggestion => InFlight = 0

\* ------------------------------------------------- claims across the views
\* C21: whenever an analyzeChapter or generateQuiz call rejects, the calling
\* view ends that call with status ERROR, never SUCCESS, and stores no
\* result or questions from it; the best-effort views (Dashboard
\* suggestion, tutor chat) end every call with some text shown.
C21_FailureShownExplicitly ==
  /\ [][GenerateQuizRejects => quizStatus' = "ERROR" /\ questions' = questions]_vars
  /\ [][AnalyzeRejects =>
          anStatus' = "ERROR" /\ sharedAnalysis' = sharedAnalysis]_vars
  /\ [][(\E o \in {"resolved", "rejected"} : AskTutorSettles(o)) =>
          /\ Len(messages') = Len(messages) + 1
          /\ messages'[Len(messages')].role = "model"]_vars
  /\ [][(\E s \in Subjects : PlanSettles(s)) =>
          suggestion' # "" /\ ~loadingSuggestion']_vars

C21_Witness ==
  \/ screen = "QUIZ" /\ quizStatus = "ERROR" /\ quizCalls = 0
       /\ questions = <<>>
  \/ screen = "ANALYZER" /\ anStatus = "ERROR" /\ anCalls = 0
       /\ sharedAnalysis = "null" /\ anStarted

\* ---------------------------------------------------- claims on the login
NoDuplicateUsernames ==
  \A i, j \in 1..Len(users) : users[i].username = users[j].username => i = j

C29_LoginGate ==
  /\ [](screen = "AUTH" /\ MainViewsShown => sessionFlag)
  /\ [][~sessionFlag /\ sessionFlag' =>
          /\ storageState = "ok"
          /\ authResult' = [op |-> "login", username |-> authResult'.username,
                            success |-> TRUE]
          /\ \E p \in Passwords :
               /\ UserMatches(authResult'.username, p)
               /\ authCalls'[AuthCall("login", authResult'.username, p)]
                    < authCalls[AuthCall("login", authResult'.username, p)]]_vars
  /\ [][\A u \in Usernames, p \in Passwords :
          LoginSettles(u, p) /\ ~authResult'.success =>
            sessionFlag' = sessionFlag /\ isAuthenticated' = isAuthenticated]_vars
  /\ [][HandleLogout => ~sessionFlag' /\ ~isAuthenticated']_vars

C29_Witness ==
  /\ screen = "AUTH"
  /\ MainViewsShown
  /\ sessionFlag
  /\ authResult.op = "login"
  /\ authResult.success
  /\ Len(users) = 2

\* ------------------------------------------------------ claims on SmartNotes
\* C30: persisted notes survive a mount - once the mount effects have
\* settled (run once or twice), the notes state and the 'examzen_notes'
\* entry equal the list stored before the mount; afterwards the entry
\* equals the notes state after every save, update and delete.
C30_NotesSurviveMount ==
  /\ screen = "NOTES" /\ notesPc = "settled" =>
       notes = storedAtMount /\ notesEntry = [present |-> TRUE, list |-> notes]
  /\ screen = "NOTES" /\ notesPc = "changed" =>
       notesEntry = [present |-> TRUE, list |-> notes]
====
